---- MODULE Spec2Model ----
(***************************************************************************)
(* Model of tools/rpi/ahoy.py: the Hoymiles gateway daemon.                *)
(*                                                                         *)
(* Two execution contexts share command_queue and mqtt_command_topic_subs: *)
(*   - the main thread: startup (lines 173-202), the cycle loop            *)
(*     (lines 203-212), main_loop (38-46) and poll_inverter (48-103);      *)
(*   - the message-bus thread started by loop_start(), which runs          *)
(*     mqtt_on_command (131-170) once per delivered message.               *)
(* Byte strings are sequences of integers 0..255, text is a sequence of    *)
(* one-character strings, topics are sequences of path segments.           *)
(***************************************************************************)
EXTENDS Integers, Sequences, FiniteSets, TLC

(***************************************************************************)
(* Bounds of the model                                                     *)
(***************************************************************************)
MaxEnqueue == 2      \* listener invocations that may append to a queue
MaxCycles == 2       \* iterations of the cycle loop
MaxRx == 2           \* receive rounds (rxtx() returning true) per attempt
MaxPhases == 3       \* phases of a status record
MaxStrings == 2      \* DC strings of a status record
MaxInterval == 4     \* largest 'interval' of the pause between cycles
MaxNowOffset == 29   \* seconds after 1700000000 at which a cycle may end

(***************************************************************************)
(* Constants of the program                                                *)
(***************************************************************************)
PayloadTtl == 4          \* payload_ttl = 4
MaxMessageLen == 2048    \* len(p_message) < 2048
CommandMarker == 128     \* payload[0] == 0x80
EnergyDivisor == 1000    \* string['energy_total']/1000
TimeTokenLen == 8        \* 'tttttttt'

None == "None"
NoTopic == <<>>          \* inverter.get('mqtt', {}).get('topic', None) is None
NoPayload == [kind |-> "none"]   \* payload is not bound yet
\* no message has been delivered yet; mqtt_send_status has not been called
NoInput == [kind |-> "none", topic |-> <<>>, msg |-> <<>>, t |-> 0]
NoCall == [kind |-> "none"]
NoSleep == [now |-> 0, secs |-> -1]
Pending == [kind |-> "pending"]  \* line 52 has run, line 53 has not yet

(***************************************************************************)
(* Text and byte helpers used by mqtt_on_command                           *)
(***************************************************************************)
HexDigits == <<"0","1","2","3","4","5","6","7","8","9","a","b","c","d","e","f">>
UpperChars == <<"A","B","C","D","E","F","G","T">>
LowerChars == <<"a","b","c","d","e","f","g","t">>
Newline == "\n"
BadUtf8 == "<invalid-utf8>"   \* a byte sequence that is not UTF-8

HexChars == {HexDigits[i] : i \in 1..16}
HexValues == [c \in HexChars |-> (CHOOSE i \in 1..16 : HexDigits[i] = c) - 1]

\* the character class [a-f0-9]
IsHexChar(c) == c \in HexChars

\* the value of a hexadecimal digit
HexVal(c) == HexValues[c]

\* message.payload.decode('utf-8') raises UnicodeDecodeError
DecodeRaises(msg) == \E i \in 1..Len(msg) : msg[i] = BadUtf8

\* str.lower()
LowerMap ==
    [c \in {UpperChars[i] : i \in 1..Len(UpperChars)} |->
        LowerChars[CHOOSE i \in 1..Len(UpperChars) : UpperChars[i] = c]]

LowerChar(c) == IF c \in DOMAIN LowerMap THEN LowerMap[c] ELSE c

Lower(s) == [i \in 1..Len(s) |-> LowerChar(s[i])]

\* ''.join(f'{b:02x}' for b in struct.pack('>L', int(time.time())))
Pow16(n) == IF n = 0 THEN 1 ELSE IF n = 1 THEN 16 ELSE IF n = 2 THEN 256
            ELSE IF n = 3 THEN 4096 ELSE IF n = 4 THEN 65536
            ELSE IF n = 5 THEN 1048576 ELSE IF n = 6 THEN 16777216
            ELSE 268435456

ExpandTime(t) ==
    [i \in 1..TimeTokenLen |-> HexDigits[((t \div Pow16(TimeTokenLen - i)) % 16) + 1]]

\* the token 'tttttttt' starts at position i of s
TokenAt(s, i) ==
    /\ i + TimeTokenLen - 1 <= Len(s)
    /\ \A k \in 0..(TimeTokenLen - 1) : s[i + k] = "t"

HasToken(s) == \E i \in 1..Len(s) : s[i] = "t" /\ TokenAt(s, i)

\* str.replace: leftmost non-overlapping occurrences, left to right
RECURSIVE ReplaceFrom(_, _, _)
ReplaceFrom(s, i, new) ==
    IF i > Len(s) THEN <<>>
    ELSE IF TokenAt(s, i) THEN new \o ReplaceFrom(s, i + TimeTokenLen, new)
    ELSE <<s[i]>> \o ReplaceFrom(s, i + 1, new)

\* p_message.replace('tttttttt', expand_time)
ReplaceToken(s, new) == IF HasToken(s) THEN ReplaceFrom(s, 1, new) ELSE s

\* re.match(r'^[a-f0-9]+$', p): '$' also matches just before one trailing
\* newline
ReMatch(p) ==
    \/ /\ Len(p) > 0
       /\ \A i \in 1..Len(p) : IsHexChar(p[i])
    \/ /\ Len(p) > 1
       /\ p[Len(p)] = Newline
       /\ \A i \in 1..(Len(p) - 1) : IsHexChar(p[i])

LengthOk(p) == Len(p) < MaxMessageLen

\* the condition of the if statement of lines 163-165
Validates(p) == LengthOk(p) /\ Len(p) % 2 = 0 /\ ReMatch(p)

\* bytes.fromhex raises ValueError on a string that is not pairs of hex
\* digits (white space is only skipped between pairs)
FromHexRaises(p) ==
    \/ \E i \in 1..Len(p) : ~IsHexChar(p[i])
    \/ Len(p) % 2 = 1

FromHex(p) ==
    [i \in 1..(Len(p) \div 2) |-> 16 * HexVal(p[2 * i - 1]) + HexVal(p[2 * i])]

\* hoymiles.frame_payload: the framing primitive of the protocol library
frame_payload(bytes) == [kind |-> "framed", bytes |-> bytes]

\* hoymiles.compose_set_time_payload: the default request, built from the
\* current time
compose_set_time_payload(t) == [kind |-> "set_time", t |-> t]

(***************************************************************************)
(* Configuration (the 'ahoy' section of the YAML file)                     *)
(***************************************************************************)
InvertersRaw ==
    << [serial |-> "s1", disabled |-> FALSE, send_raw_enabled |-> TRUE,
        topic |-> <<"solar", "a">>],
       [serial |-> "s2", disabled |-> FALSE, send_raw_enabled |-> FALSE,
        topic |-> NoTopic],
       [serial |-> "s3", disabled |-> TRUE, send_raw_enabled |-> TRUE,
        topic |-> NoTopic] >>

InvertersPlain ==
    << [serial |-> "s1", disabled |-> FALSE, send_raw_enabled |-> FALSE,
        topic |-> <<"solar", "a">>],
       [serial |-> "s2", disabled |-> FALSE, send_raw_enabled |-> FALSE,
        topic |-> NoTopic] >>

\* sample configurations; interval is 'interval' of the file, 1 when absent
Configs ==
    { [inverters |-> InvertersRaw, mqtt_disabled |-> FALSE, interval |-> 3],
      [inverters |-> InvertersRaw, mqtt_disabled |-> TRUE, interval |-> 1],
      [inverters |-> InvertersPlain, mqtt_disabled |-> FALSE, interval |-> 0],
      [inverters |-> InvertersPlain, mqtt_disabled |-> TRUE, interval |-> 3] }

Serials == {"s1", "s2", "s3"}

\* int(time.time()) as read by the program
Times == {1700000000, 2147483647}

\* time.time() at line 208, in whole seconds
LoopNows == {1700000000, 1700000001}

\* text of a message: a sequence of characters
Rep(c, n) == [i \in 1..n |-> c]

CmdA == <<"8","0","0","b">>
CmdB == <<"8","0","F","f","0","1">>
CmdOdd == <<"8","0","0">>

\* messages delivered while the poll loop runs
LoopMessages == {CmdA, CmdB, CmdOdd}

\* topics on which the bus may deliver a message
Topics ==
    { <<"solar", "a", "command">>, <<"hoymiles", "s3", "command">>,
      <<"hoymiles", "s2", "command">> }

\* responses get_payload may return, and what ResponseDecoder.decode
\* makes of them
Responses == {"status", "other"}

SampleStatus ==
    [temperature |-> 25, frequency |-> 50,
     phases |-> << [voltage |-> 230, current |-> 2, power |-> 460] >>,
     strings |-> << [voltage |-> 30, current |-> 8, power |-> 240,
                     energy_total |-> 1500, energy_daily |-> 7] >>]

Decode(resp) ==
    IF resp = "status" THEN [kind |-> "StatusResponse", data |-> SampleStatus]
    ELSE [kind |-> "other"]

(***************************************************************************)
(* State                                                                   *)
(***************************************************************************)
VARIABLES
    ahoy_config,              \* ahoy_config (line 173)
    pc,                       \* position of the main thread
    inv,                      \* index of the for loop being run (187, 43)
    mqtt_client,              \* TRUE when a client object exists (30, 177)
    radio,                    \* "closed", "begun" or "down"
    listener,                 \* "off", "running" or "crashed": the bus thread
    command_queue,            \* command_queue (32)
    mqtt_command_topic_subs,  \* mqtt_command_topic_subs (33)
    payload,                  \* payload of the poll (53, 55)
    payload_src,              \* "queue" or "default": the branch of line 52
    payload_ttl,              \* payload_ttl (57)
    response,                 \* response (70, 73)
    rx,                       \* rounds of the loop of line 71 in this attempt
    attempts,                 \* transactions built in this poll
    extracted,                \* get_payload calls that succeeded in this poll
    get_result,               \* how the last get_payload call of the attempt
                              \* ended: "none", "ok" or "error"
    sent,                     \* payloads put into a frame in this poll
    published,                \* publish calls of this poll, in order
    enqueued,                 \* per inverter, every entry ever appended
    dequeued,                 \* per inverter, every entry ever popped
    pollLog,                  \* per inverter and poll: queue seen at line 52,
                              \* command taken, queue grown before line 53
    cycles,                   \* completed iterations of the cycle loop
    slept,                    \* the time.sleep call in progress (208)
    exit,                     \* why the process ended, "" while it runs
    lastIn,                   \* the last message handed to the listener
    pubIn                     \* the arguments of mqtt_send_status

vars ==
    << ahoy_config, pc, inv, mqtt_client, radio, listener, command_queue,
       mqtt_command_topic_subs, payload, payload_src, payload_ttl, response,
       rx, attempts, extracted, get_result, sent, published, enqueued,
       dequeued, pollLog,
       cycles, slept, exit, lastIn, pubIn >>

configVars == << ahoy_config >>
pollVars ==
    << payload, payload_src, payload_ttl, response, rx, attempts, extracted,
       get_result, sent >>
historyVars == << enqueued, dequeued, pollLog >>
observerVars == << lastIn, pubIn >>

EmptyMap == [s \in {} |-> <<>>]

\* variant: the disabled flag is not looked at
AllInverters(cfg) == cfg.inverters

\* the list built by lines 39-41
EnabledInverters(cfg) == SelectSeq(cfg.inverters, LAMBDA i : ~i.disabled)

\* the inverter being polled
Current == EnabledInverters(ahoy_config)[inv]

Init ==
    /\ ahoy_config \in Configs
    /\ pc = "mqtt_setup"
    /\ inv = 1
    /\ mqtt_client = FALSE
    /\ radio = "closed"
    /\ listener = "off"
    /\ command_queue = EmptyMap
    /\ mqtt_command_topic_subs = <<>>
    /\ payload = NoPayload
    /\ payload_src = None
    /\ payload_ttl = 0
    /\ response = None
    /\ rx = 0
    /\ attempts = 0
    /\ extracted = 0
    /\ get_result = "none"
    /\ sent = <<>>
    /\ published = <<>>
    /\ enqueued = [s \in Serials |-> <<>>]
    /\ dequeued = [s \in Serials |-> <<>>]
    /\ pollLog = [s \in Serials |-> <<>>]
    /\ cycles = 0
    /\ slept = NoSleep
    /\ exit = ""
    /\ lastIn = NoInput
    /\ pubIn = NoCall

\* the process ends: an uncaught exception, or sys.exit()
Exit(reason) ==
    /\ pc' = "exited"
    /\ exit' = reason

(***************************************************************************)
(* Startup, lines 173-202                                                  *)
(***************************************************************************)
\* lines 175-181
MqttSetup ==
    /\ pc = "mqtt_setup"
    /\ mqtt_client' = ~ahoy_config.mqtt_disabled
    /\ listener' = IF ahoy_config.mqtt_disabled THEN "off" ELSE "running"
    /\ pc' = "radio_begin"
    /\ UNCHANGED << configVars, inv, radio, command_queue,
                    mqtt_command_topic_subs, pollVars, published, historyVars,
                    cycles, slept, exit, observerVars >>

\* variant: the result of radio.begin() is not looked at
BeginIgnored(ok) == FALSE

\* not radio.begin() (line 183)
BeginFailed(ok) == ~ok

\* lines 183-184
RadioBegin ==
    /\ pc = "radio_begin"
    /\ \E ok \in BOOLEAN :
         /\ radio' = IF ok THEN "begun" ELSE radio
         /\ IF BeginFailed(ok)
            THEN /\ Exit("RuntimeError")
                 /\ UNCHANGED inv
            ELSE /\ pc' = "setup"
                 /\ inv' = 1
                 /\ UNCHANGED exit
    /\ UNCHANGED << configVars, mqtt_client, listener, command_queue,
                    mqtt_command_topic_subs, pollVars, published, historyVars,
                    cycles, slept, observerVars >>

\* the topic_item of lines 195-198
TopicItem(inverter) ==
    << inverter.serial,
       (IF inverter.topic = NoTopic THEN <<"hoymiles", inverter.serial>>
        ELSE inverter.topic) \o <<"command">> >>

\* command_queue[str(inverter_ser)] = [] (line 189)
CreateQueue(queues, ser) ==
    [s \in DOMAIN queues \cup {ser} |-> IF s = ser THEN <<>> ELSE queues[s]]

\* variant: every inverter is subscribed
SubscribesAll(inverter) == TRUE

\* inverter.get('mqtt', {}).get('send_raw_enabled', False) (line 194)
Subscribes(inverter) == inverter.send_raw_enabled

\* one iteration of the for loop of lines 187-200
SetupInverter ==
    /\ pc = "setup"
    /\ inv <= Len(ahoy_config.inverters)
    /\ LET inverter == ahoy_config.inverters[inv] IN
         /\ command_queue' = CreateQueue(command_queue, inverter.serial)
         /\ IF Subscribes(inverter)
            THEN IF mqtt_client
                 THEN /\ mqtt_command_topic_subs' =
                            Append(mqtt_command_topic_subs, TopicItem(inverter))
                      /\ inv' = inv + 1
                      /\ UNCHANGED << pc, exit >>
                 ELSE \* mqtt_client is None: subscribe raises AttributeError
                      /\ Exit("AttributeError")
                      /\ UNCHANGED << mqtt_command_topic_subs, inv >>
            ELSE /\ inv' = inv + 1
                 /\ UNCHANGED << mqtt_command_topic_subs, pc, exit >>
    /\ UNCHANGED << configVars, mqtt_client, radio, listener, pollVars,
                    published, historyVars, cycles, slept, observerVars >>

\* lines 202-205: the for loop is over, the cycle loop is entered
EnterLoop ==
    /\ pc = "setup"
    /\ inv > Len(ahoy_config.inverters)
    /\ pc' = "main_loop"
    /\ inv' = 1
    /\ UNCHANGED << configVars, mqtt_client, radio, listener, command_queue,
                    mqtt_command_topic_subs, pollVars, published, historyVars,
                    cycles, slept, exit, observerVars >>

(***************************************************************************)
(* mqtt_send_status, lines 105-129                                         *)
(* A publish call is [topic, value]; a value is the rational <<n, d>>.     *)
(***************************************************************************)
Digits == <<"0","1","2","3","4","5","6","7","8","9">>

\* f'{phase_id}' for the indices the model reaches
IndexStr(i) == Digits[i + 1]

\* lines 108-109
TopicRoot(inverter_ser, topic) ==
    IF topic = NoTopic THEN <<"hoymiles", inverter_ser>> ELSE topic

Unmodified(v) == <<v, 1>>

\* variant: the cumulative energy published as it is
EnergyTotalRaw(v) == <<v, 1>>

\* string['energy_total']/1000 (true division)
EnergyTotal(v) == <<v, EnergyDivisor>>

PhaseFields == <<"power", "voltage", "current">>
StringFields == <<"total", "power", "voltage", "current">>

\* lines 112-117
PhasePublishes(root, phases) ==
    [k \in 1..(3 * Len(phases)) |->
        LET i == (k - 1) \div 3
            f == PhaseFields[((k - 1) % 3) + 1]
        IN  [topic |-> root \o <<"emeter", IndexStr(i), f>>,
             value |-> Unmodified(phases[i + 1][f])]]

\* lines 120-126
StringPublishes(root, strings) ==
    [k \in 1..(4 * Len(strings)) |->
        LET i == (k - 1) \div 4
            f == StringFields[((k - 1) % 4) + 1]
        IN  [topic |-> root \o <<"emeter-dc", IndexStr(i), f>>,
             value |-> IF f = "total"
                       THEN EnergyTotal(strings[i + 1].energy_total)
                       ELSE Unmodified(strings[i + 1][f])]]

\* lines 128-129
GlobalPublishes(root, data) ==
    << [topic |-> root \o <<"frequency">>, value |-> Unmodified(data.frequency)],
       [topic |-> root \o <<"temperature">>,
        value |-> Unmodified(data.temperature)] >>

mqtt_send_status(inverter_ser, data, topic) ==
    LET root == TopicRoot(inverter_ser, topic) IN
      PhasePublishes(root, data.phases)
        \o StringPublishes(root, data.strings)
        \o GlobalPublishes(root, data)

(***************************************************************************)
(* main_loop and poll_inverter, lines 38-103                               *)
(***************************************************************************)
\* len(command_queue[str(inverter_ser)]) > 0 (line 52)
QueueNonEmpty(q) == Len(q) > 0

\* variant: pop() without an index, which takes the newest entry
PopValueLast(q) == q[Len(q)]

\* command_queue[...].pop(0) (line 53): the value returned, the list left
PopValue(q) == Head(q)

\* variant: the entry is read and left in the queue
PopRestPeek(q) == q

PopRest(q) == Tail(q)

\* variant: the empty branch reuses a frame that was queued earlier
StalePayload(t) == frame_payload(<<11>>)

\* the else branch of lines 54-55
EmptyQueuePayload(t) == compose_set_time_payload(t)

\* payload_ttl = payload_ttl - 1 (line 59)
TtlAfterAttempt(ttl) == ttl - 1

\* variant: a successful extraction leaves the budget as it is
TtlKept(ttl) == ttl

\* payload_ttl = 0 (line 74)
TtlAfterExtract(ttl) == 0

\* while payload_ttl > 0 (line 58)
RetryLoopContinues(ttl) == ttl > 0

\* the try block of lines 203-208 is being executed
InTry == pc \in {"main_loop", "poll_pop", "while_ttl", "rxtx", "get_payload",
                 "decode", "sleep", "sleeping"}

\* lines 43-52 and, on an empty queue, 54-57
PollCheck ==
    /\ pc = "main_loop"
    /\ inv <= Len(EnabledInverters(ahoy_config))
    /\ LET ser == Current.serial
           q == command_queue[ser]
       IN  IF QueueNonEmpty(q)
           THEN /\ pc' = "poll_pop"
                /\ pollLog' = [pollLog EXCEPT
                       ![ser] = Append(@, [q |-> q, cmd |-> Pending,
                                           raced |-> FALSE])]
                /\ payload' = NoPayload
                /\ payload_src' = "queue"
                /\ payload_ttl' = 0
           ELSE \E t \in Times :
                /\ pc' = "while_ttl"
                /\ payload' = EmptyQueuePayload(t)
                /\ payload_src' = "default"
                /\ payload_ttl' = PayloadTtl
                /\ pollLog' = [pollLog EXCEPT
                       ![ser] = Append(@, [q |-> q, cmd |-> NoPayload,
                                           raced |-> FALSE])]
    /\ response' = None
    /\ rx' = 0
    /\ attempts' = 0
    /\ extracted' = 0
    /\ get_result' = "none"
    /\ sent' = <<>>
    /\ published' = <<>>
    /\ UNCHANGED << configVars, inv, mqtt_client, radio, listener,
                    command_queue, mqtt_command_topic_subs, enqueued,
                    dequeued, cycles, slept, exit, observerVars >>

\* line 53, then line 57
PollPop ==
    /\ pc = "poll_pop"
    /\ LET ser == Current.serial
           q == command_queue[ser]
       IN  /\ payload' = PopValue(q)
           /\ command_queue' = [command_queue EXCEPT ![ser] = PopRest(q)]
           /\ dequeued' = [dequeued EXCEPT ![ser] = Append(@, PopValue(q))]
           /\ pollLog' = [pollLog EXCEPT
                  ![ser][Len(pollLog[ser])] =
                      [q |-> @.q, cmd |-> PopValue(q),
                       raced |-> Len(q) > Len(@.q)]]
    /\ payload_ttl' = PayloadTtl
    /\ pc' = "while_ttl"
    /\ UNCHANGED << configVars, inv, mqtt_client, radio, listener,
                    mqtt_command_topic_subs, payload_src, response, rx,
                    attempts, extracted, get_result, sent, published,
                    enqueued, cycles, slept,
                    exit, observerVars >>

\* lines 58-70: one more attempt; building the transaction may raise
StartAttempt ==
    /\ pc = "while_ttl"
    /\ RetryLoopContinues(payload_ttl)
    /\ payload_ttl' = TtlAfterAttempt(payload_ttl)
    /\ \E built \in BOOLEAN :
         IF built
         THEN /\ attempts' = attempts + 1
              /\ sent' = Append(sent, payload)
              /\ response' = None
              /\ rx' = 0
              /\ get_result' = "none"
              /\ pc' = "rxtx"
              /\ UNCHANGED exit
         ELSE /\ Exit("Exception")
              /\ UNCHANGED << attempts, sent, response, rx, get_result >>
    /\ UNCHANGED << configVars, inv, mqtt_client, radio, listener,
                    command_queue, mqtt_command_topic_subs, payload,
                    payload_src, extracted, published, historyVars, cycles, slept,
                    observerVars >>

\* line 58 when the condition is false: the retry loop is left
EndAttempts ==
    /\ pc = "while_ttl"
    /\ ~RetryLoopContinues(payload_ttl)
    /\ pc' = "decode"
    /\ UNCHANGED << configVars, inv, mqtt_client, radio, listener,
                    command_queue, mqtt_command_topic_subs, pollVars,
                    published, historyVars, cycles, slept, exit, observerVars >>

\* com.rxtx() (line 71): true, false, or an exception nothing catches
Rxtx ==
    /\ pc = "rxtx"
    /\ \/ /\ rx < MaxRx
          /\ rx' = rx + 1
          /\ pc' = "get_payload"
          /\ UNCHANGED exit
       \/ /\ pc' = "while_ttl"
          /\ UNCHANGED << rx, exit >>
       \/ /\ Exit("Exception")
          /\ UNCHANGED rx
    /\ UNCHANGED << configVars, inv, mqtt_client, radio, listener,
                    command_queue, mqtt_command_topic_subs, payload,
                    payload_src, payload_ttl, response, attempts, extracted,
                    get_result, sent, published, historyVars, cycles, slept, observerVars >>

\* variant: the except branch forgets the response
ResponseDropped(resp) == None

\* the except branch of lines 75-77 assigns nothing
ResponseOnError(resp) == resp

\* lines 72-77: get_payload returns a response or raises; the exception
\* is caught
GetPayload ==
    /\ pc = "get_payload"
    /\ \/ \E resp \in Responses :
            /\ response' = resp
            /\ payload_ttl' = TtlAfterExtract(payload_ttl)
            /\ extracted' = extracted + 1
            /\ get_result' = "ok"
       \/ /\ response' = ResponseOnError(response)
          /\ get_result' = "error"
          /\ UNCHANGED << payload_ttl, extracted >>
    /\ pc' = "rxtx"
    /\ UNCHANGED << configVars, inv, mqtt_client, radio, listener,
                    command_queue, mqtt_command_topic_subs, payload,
                    payload_src, rx, attempts, sent, published, historyVars,
                    cycles, slept, exit, observerVars >>

\* variant: the status is published whether or not a client exists
PollPublishesAnyClient(resp, client, inverter) ==
    IF resp # None /\ Decode(resp).kind = "StatusResponse"
    THEN mqtt_send_status(inverter.serial, Decode(resp).data, inverter.topic)
    ELSE <<>>

\* the publish calls of lines 79-103
PollPublishes(resp, client, inverter) ==
    IF resp # None /\ Decode(resp).kind = "StatusResponse" /\ client
    THEN mqtt_send_status(inverter.serial, Decode(resp).data, inverter.topic)
    ELSE <<>>

\* lines 79-103, and the return to the for loop of line 43: the locals of
\* poll_inverter are gone; response and published stay as the record of
\* what the poll did
DecodeResponse ==
    /\ pc = "decode"
    /\ published' = PollPublishes(response, mqtt_client, Current)
    /\ inv' = inv + 1
    /\ pc' = "main_loop"
    /\ payload' = NoPayload
    /\ payload_src' = None
    /\ payload_ttl' = 0
    /\ rx' = 0
    /\ attempts' = 0
    /\ extracted' = 0
    /\ get_result' = "none"
    /\ sent' = <<>>
    /\ UNCHANGED << configVars, mqtt_client, radio, listener, command_queue,
                    mqtt_command_topic_subs, response, historyVars, cycles, slept,
                    exit, observerVars >>

\* the for loop of line 43 is over: main_loop returns (line 205)
EndCycle ==
    /\ pc = "main_loop"
    /\ inv > Len(EnabledInverters(ahoy_config))
    /\ pc' = "sleep"
    /\ UNCHANGED << configVars, inv, mqtt_client, radio, listener,
                    command_queue, mqtt_command_topic_subs, pollVars,
                    published, historyVars, cycles, slept, exit, observerVars >>

\* if loop_interval (line 207)
SleepEnabled(interval) == interval # 0

\* the argument of time.sleep (line 208)
SleepSeconds(now, interval) == now % interval

\* lines 207-208: time.sleep is called, or skipped and the next iteration
\* of while True starts
SleepAt(now) ==
    /\ pc = "sleep"
    /\ cycles + 1 < MaxCycles
    /\ IF SleepEnabled(ahoy_config.interval)
       THEN /\ slept' = [now |-> now,
                         secs |-> SleepSeconds(now, ahoy_config.interval)]
            /\ pc' = "sleeping"
            /\ UNCHANGED << cycles, inv >>
       ELSE /\ slept' = NoSleep
            /\ pc' = "main_loop"
            /\ cycles' = cycles + 1
            /\ inv' = 1
    /\ UNCHANGED << configVars, mqtt_client, radio, listener, command_queue,
                    mqtt_command_topic_subs, pollVars, published, historyVars,
                    exit, observerVars >>

Sleep == \E now \in LoopNows : SleepAt(now)

\* time.sleep returns: the next iteration of while True
Wake ==
    /\ pc = "sleeping"
    /\ slept' = NoSleep
    /\ cycles' = cycles + 1
    /\ inv' = 1
    /\ pc' = "main_loop"
    /\ UNCHANGED << configVars, mqtt_client, radio, listener, command_queue,
                    mqtt_command_topic_subs, pollVars, published, historyVars,
                    exit, observerVars >>

\* radio state after a KeyboardInterrupt: lines 210-212 run only when the
\* interrupt is raised inside the try block
RadioAfterInterrupt(inTry, r) == IF inTry THEN "down" ELSE r

\* SIGINT: KeyboardInterrupt is raised in the main thread wherever it is
Interrupt ==
    /\ pc # "exited"
    /\ radio' = RadioAfterInterrupt(InTry, radio)
    /\ Exit("KeyboardInterrupt")
    /\ UNCHANGED << configVars, inv, mqtt_client, listener, command_queue,
                    mqtt_command_topic_subs, pollVars, published, historyVars,
                    cycles, slept, observerVars >>

\* variant: with no matching subscription the serial of the last table entry
\* is used
ResolveStale(subs, topic) ==
    LET found == SelectSeq(subs, LAMBDA item : item[2] = topic)
    IN  IF Len(found) > 0 THEN found[1][1]
        ELSE IF Len(subs) > 0 THEN subs[Len(subs)][1] ELSE None

(***************************************************************************)
(* mqtt_on_command, lines 131-170                                          *)
(***************************************************************************)
\* lines 151-152: the serial of the first subscription whose topic is the
\* message's; None when next() raises StopIteration
Resolve(subs, topic) ==
    LET found == SelectSeq(subs, LAMBDA item : item[2] = topic)
    IN  IF Len(found) = 0 THEN None ELSE found[1][1]

\* lines 157-161
Normalise(msg, t) == ReplaceToken(Lower(msg), ExpandTime(t))

\* variant: the first byte is not looked at
AnyMarker(bytes) == TRUE

\* payload[0] == 0x80 (line 168)
HasMarker(bytes) == bytes[1] = CommandMarker

\* variant: the whole payload is framed
StripNothing(bytes) == bytes

\* payload[1:] (line 170)
StripMarker(bytes) == Tail(bytes)

\* what one invocation does: it appends an entry to one queue, returns
\* without doing anything, or raises
ListenerResult(subs, topic, msg, t) ==
    LET ser == Resolve(subs, topic) IN
      IF ser = None
      THEN \* inverter_ser is not bound at line 156
           [kind |-> "raise", error |-> "UnboundLocalError"]
      ELSE IF DecodeRaises(msg)
      THEN [kind |-> "raise", error |-> "UnicodeDecodeError"]
      ELSE LET p == Normalise(msg, t) IN
        IF ~Validates(p)
        THEN [kind |-> "discard"]
        ELSE IF FromHexRaises(p)
        THEN [kind |-> "raise", error |-> "ValueError"]
        ELSE LET bytes == FromHex(p) IN
          IF HasMarker(bytes)
          THEN [kind |-> "append", serial |-> ser,
                entry |-> frame_payload(StripMarker(bytes))]
          ELSE [kind |-> "discard"]

\* variant: the entry replaces the queue's content
EnqueueReplace(queues, ser, entry) == [queues EXCEPT ![ser] = <<entry>>]

\* command_queue[str(inverter_ser)].append(entry) (lines 169-170)
Enqueue(queues, ser, entry) == [queues EXCEPT ![ser] = Append(@, entry)]

TotalEnqueued ==
    Len(enqueued["s1"]) + Len(enqueued["s2"]) + Len(enqueued["s3"])

\* one invocation by the bus thread; an exception that leaves the callback
\* ends that thread
MqttOnCommand(topic, msg, t) ==
    /\ listener = "running"
    /\ pc # "exited"
    /\ TotalEnqueued < MaxEnqueue
    /\ LET r == ListenerResult(mqtt_command_topic_subs, topic, msg, t) IN
         /\ IF r.kind = "append"
            THEN /\ command_queue' = Enqueue(command_queue, r.serial, r.entry)
                 /\ enqueued' = [enqueued EXCEPT ![r.serial] = Append(@, r.entry)]
            ELSE UNCHANGED << command_queue, enqueued >>
         /\ listener' = IF r.kind = "raise" THEN "crashed" ELSE listener
    /\ UNCHANGED << configVars, pc, inv, mqtt_client, radio,
                    mqtt_command_topic_subs, pollVars, published, dequeued,
                    pollLog, cycles, slept, exit, pubIn >>

\* a message arrives while the program runs
Listen ==
    /\ \E topic \in Topics, msg \in LoopMessages, t \in Times :
         MqttOnCommand(topic, msg, t)
    /\ UNCHANGED lastIn

(***************************************************************************)
(* The program                                                             *)
(***************************************************************************)
Next ==
    \/ MqttSetup
    \/ RadioBegin
    \/ SetupInverter
    \/ EnterLoop
    \/ PollCheck
    \/ PollPop
    \/ StartAttempt
    \/ EndAttempts
    \/ Rxtx
    \/ GetPayload
    \/ DecodeResponse
    \/ EndCycle
    \/ Sleep
    \/ Wake
    \/ Interrupt
    \/ Listen

Spec == Init /\ [][Next]_vars

(***************************************************************************)
(* The listener on its own: startup, then messages of every shape, each    *)
(* recorded in lastIn                                                      *)
(***************************************************************************)
MacroMsg ==
    <<"8","0","0","b","0","0","t","t","t","t","t","t","t","t",
      "0","0","0","0","0","0","0","5","0","0","0","0","0","0","0","0">>
UpperMacroMsg == <<"8","0","T","T","T","T","t","t","t","t">>
NineTMsg == <<"8","0","t","t","t","t","t","t","t","t","t","0">>
MarkerOnlyMsg == <<"8","0">>
EmptyMsg == <<>>
NonHexMsg == <<"8","0","g","0">>
BadMarkerMsg == <<"0","b","8","0">>
NewlineMsg == <<"8","0","a",Newline>>
BadUtf8Msg == <<"8","0",BadUtf8>>
Long2048Msg == <<"8","0">> \o Rep("0", MaxMessageLen - 2)
Long2046Msg == <<"8","0">> \o Rep("0", MaxMessageLen - 4)

ShortMessages ==
    { MacroMsg, UpperMacroMsg, NineTMsg, MarkerOnlyMsg, EmptyMsg, NonHexMsg,
      BadMarkerMsg, NewlineMsg, BadUtf8Msg, CmdB, CmdOdd }

LongMessages == {Long2048Msg, Long2046Msg}

ListenerMessages == ShortMessages \cup LongMessages

\* the (topic, message, time) of the invocations: every short message on
\* every topic, the time macro at every time, the long ones on one topic,
\* as the first message or right after the marker-only one
Deliveries ==
    (Topics \X ShortMessages \X {1700000000})
      \cup (Topics \X {MacroMsg} \X Times)
      \cup ({<<"solar", "a", "command">>} \X LongMessages \X {1700000000})

Deliver ==
    \E d \in Deliveries :
      /\ d[2] \in LongMessages =>
            lastIn.kind = "none" \/ lastIn.msg = MarkerOnlyMsg
      /\ MqttOnCommand(d[1], d[2], d[3])
      /\ lastIn' = [kind |-> "message", topic |-> d[1], msg |-> d[2],
                    t |-> d[3]]

NextListener ==
    \/ MqttSetup
    \/ RadioBegin
    \/ SetupInverter
    \/ EnterLoop
    \/ Deliver

SpecListener == Init /\ [][NextListener]_vars

(***************************************************************************)
(* mqtt_send_status on its own, for status records of every shape          *)
(***************************************************************************)
PhaseRecords ==
    { [voltage |-> 230 + v, current |-> 2 + v, power |-> 460 + v] :
        v \in {0, 1} }

StringRecords ==
    { [voltage |-> 30, current |-> 8, power |-> 240, energy_total |-> e,
       energy_daily |-> 7] : e \in {1500, 2000} }

SeqsUpTo(S, n) == UNION { [1..k -> S] : k \in 0..n }

StatusRecords ==
    { [temperature |-> 25, frequency |-> 50, phases |-> p, strings |-> s] :
        p \in SeqsUpTo(PhaseRecords, MaxPhases),
        s \in SeqsUpTo(StringRecords, MaxStrings) }

PublishInputs ==
    { [kind |-> "call", serial |-> "s1", data |-> d, topic |-> tp] :
        d \in StatusRecords, tp \in {NoTopic, <<"solar", "a">>} }

InitPublish ==
    /\ ahoy_config = [inverters |-> InvertersPlain, mqtt_disabled |-> FALSE,
                      interval |-> 1]
    /\ pc = "publish"
    /\ inv = 1
    /\ mqtt_client = TRUE
    /\ radio = "begun"
    /\ listener = "running"
    /\ command_queue = [s \in {"s1", "s2"} |-> <<>>]
    /\ mqtt_command_topic_subs = <<>>
    /\ payload = NoPayload
    /\ payload_src = None
    /\ payload_ttl = 0
    /\ response = None
    /\ rx = 0
    /\ attempts = 0
    /\ extracted = 0
    /\ get_result = "none"
    /\ sent = <<>>
    /\ published = <<>>
    /\ enqueued = [s \in Serials |-> <<>>]
    /\ dequeued = [s \in Serials |-> <<>>]
    /\ pollLog = [s \in Serials |-> <<>>]
    /\ cycles = 0
    /\ slept = NoSleep
    /\ exit = ""
    /\ lastIn = NoInput
    /\ pubIn \in PublishInputs

SendStatus ==
    /\ pc = "publish"
    /\ published' = mqtt_send_status(pubIn.serial, pubIn.data, pubIn.topic)
    /\ pc' = "published"
    /\ UNCHANGED << configVars, inv, mqtt_client, radio, listener,
                    command_queue, mqtt_command_topic_subs, pollVars,
                    historyVars, cycles, slept, exit, observerVars >>

NextPublish == SendStatus

SpecPublish == InitPublish /\ [][NextPublish]_vars

(***************************************************************************)
(* The pause between two cycles on its own, for every interval and time    *)
(***************************************************************************)
Intervals == 0..MaxInterval

SleepNows == { 1700000000 + k : k \in 0..MaxNowOffset }

InitSleep ==
    /\ ahoy_config \in
         { [inverters |-> InvertersPlain, mqtt_disabled |-> TRUE,
            interval |-> i] : i \in Intervals }
    /\ pc = "sleep"
    /\ inv = 3
    /\ mqtt_client = FALSE
    /\ radio = "begun"
    /\ listener = "off"
    /\ command_queue = [s \in {"s1", "s2"} |-> <<>>]
    /\ mqtt_command_topic_subs = <<>>
    /\ payload = NoPayload
    /\ payload_src = None
    /\ payload_ttl = 0
    /\ response = None
    /\ rx = 0
    /\ attempts = 0
    /\ extracted = 0
    /\ get_result = "none"
    /\ sent = <<>>
    /\ published = <<>>
    /\ enqueued = [s \in Serials |-> <<>>]
    /\ dequeued = [s \in Serials |-> <<>>]
    /\ pollLog = [s \in Serials |-> <<>>]
    /\ cycles = 0
    /\ slept = NoSleep
    /\ exit = ""
    /\ lastIn = NoInput
    /\ pubIn = NoCall

SleepAny == \E now \in SleepNows : SleepAt(now)

NextSleep ==
    \/ SleepAny
    \/ Wake

SpecSleep == InitSleep /\ [][NextSleep]_vars

(***************************************************************************)
(* Properties                                                              *)
(***************************************************************************)
\* the poll of the current inverter has chosen its payload
InPoll == pc \in {"while_ttl", "rxtx", "get_payload", "decode"}

LastLog(s) == pollLog[s][Len(pollLog[s])]

\* C1: the commands an inverter's queue holds when a poll checks it are the
\* commands that this poll and the polls after it take, in that order, one
\* per poll; every frame of a poll carries the command the poll took, and
\* as many commands have left the queue as polls have taken one.
C1_FifoOnePerPoll ==
    /\ \A s \in Serials :
         /\ \A p \in 1..Len(pollLog[s]) :
              \A j \in 1..Len(pollLog[s][p].q) :
                (/\ p + j - 1 <= Len(pollLog[s])
                 /\ pollLog[s][p + j - 1].cmd # Pending)
                  => pollLog[s][p + j - 1].cmd = pollLog[s][p].q[j]
         /\ Len(dequeued[s]) =
              Cardinality({k \in 1..Len(pollLog[s]) :
                             pollLog[s][k].cmd.kind = "framed"})
    /\ (InPoll /\ payload_src = "queue") =>
         /\ payload = LastLog(Current.serial).cmd
         /\ \A i \in 1..Len(sent) : sent[i] = payload

\* two different commands were queued for s1; the second poll took the
\* second one and used up its four attempts without a response
C1_Witness ==
    /\ pc = "decode"
    /\ Current.serial = "s1"
    /\ Len(pollLog["s1"]) = 2
    /\ Len(pollLog["s1"][1].q) = 2
    /\ pollLog["s1"][1].q[1] # pollLog["s1"][1].q[2]
    /\ pollLog["s1"][2].cmd = pollLog["s1"][1].q[2]
    /\ attempts = 4
    /\ extracted = 0

\* what a step may do to the queues while a poll that found its queue
\* empty runs: nothing, or an append by the listener
OnlyAppends ==
    /\ dequeued' = dequeued
    /\ \A s \in DOMAIN command_queue :
         \/ command_queue'[s] = command_queue[s]
         \/ /\ Len(enqueued'[s]) = Len(enqueued[s]) + 1
            /\ command_queue'[s] =
                 Append(command_queue[s], enqueued'[s][Len(enqueued'[s])])

\* C2: a poll that finds its inverter's queue empty sends the set-time
\* request in every frame, never an entry that was queued for any inverter,
\* and takes nothing out of any queue.
C2_EmptyQueueSendsSetTime ==
    /\ [] ((InPoll /\ payload_src = "default") =>
             /\ payload.kind = "set_time"
             /\ payload.t \in Times
             /\ LastLog(Current.serial).q = <<>>
             /\ \A i \in 1..Len(sent) : sent[i] = payload
             /\ \A s \in Serials : \A k \in 1..Len(enqueued[s]) :
                  enqueued[s][k] # payload)
    /\ [][(payload_src' = "default" /\ pc' # "main_loop") => OnlyAppends]_vars

\* s1 is polled with an empty queue after an earlier poll took a command
\* from it, while the queue of s3 holds an entry
C2_Witness ==
    /\ pc = "rxtx"
    /\ payload_src = "default"
    /\ Current.serial = "s1"
    /\ attempts = 2
    /\ Len(dequeued["s1"]) = 1
    /\ Len(command_queue["s3"]) = 1

\* C3: a poll builds at most 4 transactions; when its retry loop is left
\* it has built at least 1, and exactly 4 if no response was extracted;
\* once a response has been extracted the poll builds no further one.
C3_AtMostFourAttempts ==
    /\ [] (/\ attempts \in 0..4
           /\ pc = "decode" =>
                /\ attempts >= 1
                /\ extracted = 0 => attempts = 4)
    /\ [][extracted > 0 => attempts' <= attempts]_vars

\* the second attempt extracted a response and the loop was left
C3_Witness ==
    /\ pc = "decode"
    /\ attempts = 2
    /\ extracted = 1

\* C4: for every queue, the entries popped so far followed by the entries
\* still queued are the entries appended so far, under every interleaving
\* of the listener with the poll loop.
C4_NothingLostNothingTwice ==
    \A s \in DOMAIN command_queue :
      dequeued[s] \o command_queue[s] = enqueued[s]

\* an entry was appended between line 52 and line 53 of a poll of s1,
\* and the pop has been done
C4_Witness ==
    /\ Len(pollLog["s1"]) > 0
    /\ LastLog("s1").raced
    /\ LastLog("s1").cmd # Pending
    /\ Len(command_queue["s1"]) = 1

\* a step of the message-bus thread: the main thread has not moved
DeliverStep == pc' = pc /\ inv' = inv /\ lastIn'.kind = "message"

ClassHex ==
    {"a", "b", "c", "d", "e", "f",
     "0", "1", "2", "3", "4", "5", "6", "7", "8", "9"}

\* the lower-cased, macro-expanded text is empty, of odd length, of 2048
\* or more characters, has a character outside [a-f0-9], or does not
\* start with the byte 0x80
Malformed(msg, t) ==
    LET p == Normalise(msg, t) IN
      \/ Len(p) = 0
      \/ Len(p) % 2 = 1
      \/ Len(p) >= 2048
      \/ \E i \in 1..Len(p) : p[i] \notin ClassHex
      \/ p[1] # "8"
      \/ p[2] # "0"

\* the malformed ones among the messages that are delivered
MalformedInputs ==
    {x \in ListenerMessages \X Times : Malformed(x[1], x[2])}

\* for every other message that is delivered: the frame of its decoded
\* bytes after the first
ExpectedEntry ==
    [x \in (ListenerMessages \X Times) \ MalformedInputs |->
       LET bytes == FromHex(Normalise(x[1], x[2]))
       IN  frame_payload(SubSeq(bytes, 2, Len(bytes)))]

\* no subscription has this topic
Unsubscribed(topic) ==
    \A i \in 1..Len(mqtt_command_topic_subs) :
      mqtt_command_topic_subs[i][2] # topic

\* C5: an invocation of the listener with a malformed message leaves every
\* queue as it was.
C5_MalformedNeverEnqueued ==
    [][(DeliverStep /\ <<lastIn'.msg, lastIn'.t>> \in MalformedInputs)
         => command_queue' = command_queue]_vars

\* a message with the character 'g' came in on a subscribed topic while
\* s1's queue held an entry, and the listener is still running
C5_Witness ==
    /\ lastIn.kind = "message"
    /\ lastIn.msg = NonHexMsg
    /\ lastIn.topic = <<"solar", "a", "command">>
    /\ ~Unsubscribed(lastIn.topic)
    /\ Len(command_queue["s1"]) = 1
    /\ listener = "running"

\* C6: an invocation of the listener on a topic that no subscription has
\* leaves every queue and the subscription table as they were, whatever
\* the message.
C6_UnknownTopicNoMutation ==
    [][(DeliverStep /\ Unsubscribed(lastIn'.topic))
         => /\ command_queue' = command_queue
            /\ mqtt_command_topic_subs' = mqtt_command_topic_subs]_vars

\* a well-formed command came in on the topic of s2, which is not
\* subscribed, after the table was built and s1's queue held an entry
C6_Witness ==
    /\ lastIn.kind = "message"
    /\ lastIn.msg = MacroMsg
    /\ lastIn.topic = <<"hoymiles", "s2", "command">>
    /\ Unsubscribed(lastIn.topic)
    /\ Len(mqtt_command_topic_subs) = 2
    /\ Len(command_queue["s1"]) = 1

\* the serial of the first subscription with this topic
SubscribedSerial(topic) ==
    mqtt_command_topic_subs[
        CHOOSE i \in 1..Len(mqtt_command_topic_subs) :
          /\ mqtt_command_topic_subs[i][2] = topic
          /\ \A j \in 1..(i - 1) : mqtt_command_topic_subs[j][2] # topic][1]

\* 800b00tttttttt0000000500000000 at time 1700000000 (0x6553f100), without
\* its first byte
MacroBytes == <<11, 0, 101, 83, 241, 0, 0, 0, 0, 5, 0, 0, 0, 0>>

\* C7: an invocation of the listener on a subscribed topic with a
\* well-formed message appends one entry to the tail of the queue of the
\* inverter the topic resolves to, the frame of the decoded bytes after the
\* first, and leaves every other queue as it was.
C7_ValidCommandEnqueued ==
    [][(/\ DeliverStep
        /\ ~Unsubscribed(lastIn'.topic)
        /\ <<lastIn'.msg, lastIn'.t>> \notin MalformedInputs)
         => LET ser == SubscribedSerial(lastIn'.topic)
                entry == ExpectedEntry[<<lastIn'.msg, lastIn'.t>>]
            IN  /\ command_queue' =
                     [command_queue EXCEPT ![ser] = Append(@, entry)]
                /\ (lastIn'.msg = MacroMsg /\ lastIn'.t = 1700000000)
                     => entry = frame_payload(MacroBytes)]_vars

\* the time-macro command came in for s1 behind another entry
C7_Witness ==
    /\ lastIn.kind = "message"
    /\ lastIn.msg = MacroMsg
    /\ lastIn.t = 1700000000
    /\ lastIn.topic = <<"solar", "a", "command">>
    /\ ~Unsubscribed(lastIn.topic)
    /\ Len(command_queue["s1"]) = 2
    /\ command_queue["s1"][2] = frame_payload(MacroBytes)
    /\ command_queue["s1"][1] # command_queue["s1"][2]

IndexText == <<"0", "1", "2", "3", "4", "5">>

\* C8: mqtt_send_status makes 3*P + 4*S + 2 publish calls, to distinct
\* topics under the topic root: power, voltage, current per phase; total,
\* power, voltage, current per string; frequency; temperature.  The value
\* on total is the cumulative energy divided by 1000, every other value is
\* the field as it is.
C8_PublishMapping ==
    pc = "published" =>
      LET d == pubIn.data
          P == Len(d.phases)
          S == Len(d.strings)
          root == IF pubIn.topic # NoTopic THEN pubIn.topic
                  ELSE <<"hoymiles", pubIn.serial>>
          Call(tp, v) == [topic |-> root \o tp, value |-> <<v, 1>>]
      IN  /\ Len(published) = 3 * P + 4 * S + 2
          /\ \A i, j \in 1..Len(published) :
               i # j => published[i].topic # published[j].topic
          /\ \A i \in 0..(P - 1) :
               /\ published[3 * i + 1] =
                    Call(<<"emeter", IndexText[i + 1], "power">>,
                         d.phases[i + 1].power)
               /\ published[3 * i + 2] =
                    Call(<<"emeter", IndexText[i + 1], "voltage">>,
                         d.phases[i + 1].voltage)
               /\ published[3 * i + 3] =
                    Call(<<"emeter", IndexText[i + 1], "current">>,
                         d.phases[i + 1].current)
          /\ \A i \in 0..(S - 1) :
               LET total == published[3 * P + 4 * i + 1] IN
                 /\ total.topic =
                      root \o <<"emeter-dc", IndexText[i + 1], "total">>
                 /\ total.value[2] > 0
                 /\ total.value[1] * 1000 =
                      d.strings[i + 1].energy_total * total.value[2]
                 /\ published[3 * P + 4 * i + 2] =
                      Call(<<"emeter-dc", IndexText[i + 1], "power">>,
                           d.strings[i + 1].power)
                 /\ published[3 * P + 4 * i + 3] =
                      Call(<<"emeter-dc", IndexText[i + 1], "voltage">>,
                           d.strings[i + 1].voltage)
                 /\ published[3 * P + 4 * i + 4] =
                      Call(<<"emeter-dc", IndexText[i + 1], "current">>,
                           d.strings[i + 1].current)
          /\ published[3 * P + 4 * S + 1] = Call(<<"frequency">>, d.frequency)
          /\ published[3 * P + 4 * S + 2] =
               Call(<<"temperature">>, d.temperature)

\* a record with 3 phases and 2 strings was published under the default
\* root: 19 calls
C8_Witness ==
    /\ pc = "published"
    /\ Len(pubIn.data.phases) = 3
    /\ Len(pubIn.data.strings) = 2
    /\ pubIn.topic = NoTopic
    /\ Len(published) = 19

\* C9: an error raised while a transaction is built or executed, or while
\* its response is extracted, is caught: the process never ends on it.
C9_TransactionErrorsCaught == ~(pc = "exited" /\ exit = "Exception")

\* C10: when the process ends on an interrupt after radio.begin() returned
\* true, the radio has been powered down.
C10_PowerDownOnInterrupt ==
    (pc = "exited" /\ exit = "KeyboardInterrupt" /\ radio # "closed")
      => radio = "down"

\* no poll has been started and nothing has been taken from a queue
NothingPolled ==
    /\ \A s \in Serials : pollLog[s] = <<>> /\ dequeued[s] = <<>>
    /\ attempts = 0
    /\ sent = <<>>
    /\ cycles = 0

\* C11: while radio.begin() has not returned true the program is before
\* line 186 or has ended, and it has polled nothing; when begin() returns
\* false the program ends at once with the RuntimeError of line 184.
C11_RadioFailureStopsStartup ==
    /\ [] (radio = "closed" =>
             /\ pc \in {"mqtt_setup", "radio_begin", "exited"}
             /\ NothingPolled)
    /\ [] (exit = "RuntimeError" => pc = "exited" /\ radio = "closed")
    /\ [][(pc = "radio_begin" /\ pc' # pc /\ radio' = "closed")
            => exit' \in {"RuntimeError", "KeyboardInterrupt"}]_vars

\* begin() returned false with the bus client connected and its thread
\* running
C11_Witness ==
    /\ pc = "exited"
    /\ exit = "RuntimeError"
    /\ radio = "closed"
    /\ mqtt_client
    /\ listener = "running"
    /\ ahoy_config.inverters = InvertersRaw

\* C12: with a non-zero interval the pause between two cycles lasts
\* interval - (now mod interval) seconds, a time in (0, interval] that ends
\* on a multiple of the interval; with interval 0 there is no pause.
C12_SleepToNextMultiple ==
    /\ pc = "sleeping" =>
         /\ ahoy_config.interval # 0
         /\ slept.secs =
              ahoy_config.interval - (slept.now % ahoy_config.interval)
         /\ slept.secs > 0
         /\ slept.secs <= ahoy_config.interval
         /\ (slept.now + slept.secs) % ahoy_config.interval = 0
    /\ ahoy_config.interval = 0 => slept = NoSleep

\* C13: publish calls are made only by the step that ends a poll, and only
\* when the poll extracted a response, the response decodes to a status
\* record and a bus client exists; a poll without a response, or with a
\* response of another kind, publishes nothing.
C13_PublishOnlyStatus ==
    /\ [][published' # published => (pc = "decode" \/ published' = <<>>)]_vars
    /\ [][(pc = "decode" /\ pc' = "main_loop") =>
            /\ published' # <<>> =>
                 /\ extracted > 0
                 /\ response # None
                 /\ Decode(response).kind = "StatusResponse"
                 /\ mqtt_client
            /\ (extracted = 0 \/ Decode(response).kind # "StatusResponse")
                 => published' = <<>>]_vars

\* with a client, the poll of s1 ended with a response of another kind and
\* published nothing
C13_Witness ==
    /\ pc = "main_loop"
    /\ inv = 2
    /\ mqtt_client
    /\ response = "other"
    /\ published = <<>>

\* a step of the main thread once the queues exist
LoopStep == pc' # pc /\ pc \notin {"mqtt_setup", "radio_begin", "setup"}

\* C14: the main thread changes a queue only by the pop of line 53 and never
\* puts an entry back; a poll whose 4 attempts all ended without a response
\* goes on to the next inverter with no error and with the queues as they
\* are; every poll starts with a budget of 4 and the head of the queue, or
\* the set-time request when the queue is empty.
C14_AtMostOncePerDequeue ==
    /\ [][LoopStep =>
            IF pc = "poll_pop" /\ pc' = "while_ttl"
            THEN command_queue' =
                   [command_queue EXCEPT ![Current.serial] = Tail(@)]
            ELSE command_queue' = command_queue]_vars
    /\ [][(LoopStep /\ pc = "decode" /\ extracted = 0) =>
            /\ attempts = 4
            /\ \/ pc' = "main_loop" /\ inv' = inv + 1 /\ exit' = ""
               \/ exit' = "KeyboardInterrupt"]_vars
    /\ [][(LoopStep /\ pc' = "while_ttl" /\ pc \in {"main_loop", "poll_pop"}) =>
            /\ payload_ttl' = 4
            /\ attempts' = 0
            /\ extracted' = 0
            /\ IF pc = "poll_pop"
               THEN payload' = Head(command_queue[Current.serial])
               ELSE payload'.kind = "set_time"]_vars

\* the poll of s1 took the only command queued and ended without a
\* response; the cycle is at the next inverter and the command is in no
\* queue
C14_Witness ==
    /\ pc = "main_loop"
    /\ inv = 2
    /\ exit = ""
    /\ response = None
    /\ Len(enqueued["s1"]) = 1
    /\ Len(dequeued["s1"]) = 1
    /\ LastLog("s1").cmd = enqueued["s1"][1]
    /\ \A s \in DOMAIN command_queue : command_queue[s] = <<>>

\* the inverters of the configuration that are not flagged disabled, in the
\* order of the configuration
NotDisabled == SelectSeq(ahoy_config.inverters, LAMBDA i : ~i.disabled)

\* the for loop of line 43 is at or past the i-th enabled inverter's poll
PollStarted(i) ==
    \/ inv > i
    \/ inv = i /\ pc \in {"poll_pop", "while_ttl", "rxtx", "get_payload",
                          "decode"}

\* C15: in the cycle loop, every enabled inverter before the position of
\* the for loop has been polled once in this cycle and once in every
\* earlier cycle, every one after it once in every earlier cycle only; at
\* most one poll is in progress, that of the inverter at the position; an
\* inverter flagged disabled is never polled and nothing is taken from its
\* queue.
C15_EveryEnabledOncePerCycle ==
    /\ pc \in {"main_loop", "poll_pop", "while_ttl", "rxtx", "get_payload",
               "decode", "sleep", "sleeping"} =>
         /\ inv \in 1..(Len(NotDisabled) + 1)
         /\ \A i \in 1..Len(NotDisabled) :
              Len(pollLog[NotDisabled[i].serial]) =
                cycles + (IF PollStarted(i) THEN 1 ELSE 0)
         /\ pc \in {"sleep", "sleeping"} => inv = Len(NotDisabled) + 1
    /\ \A s \in Serials :
         (\A i \in 1..Len(NotDisabled) : NotDisabled[i].serial # s)
           => pollLog[s] = <<>> /\ dequeued[s] = <<>>
    /\ \A i \in 1..Len(sent) :
         /\ inv <= Len(NotDisabled)
         /\ sent[i] = payload

\* the second cycle is over: s1 and s2 were polled twice, and the disabled
\* s3, whose queue holds a command, never
C15_Witness ==
    /\ ahoy_config.inverters = InvertersRaw
    /\ pc = "sleep"
    /\ cycles = 1
    /\ Len(pollLog["s1"]) = 2
    /\ Len(pollLog["s2"]) = 2
    /\ pollLog["s3"] = <<>>
    /\ Len(command_queue["s3"]) = 1

\* C16: once startup is over and a command topic is subscribed, an
\* invocation of the listener with a malformed message, or on a topic that
\* no subscription has, returns without raising, and the bus thread goes on
\* handling messages.
C16_SilentDropKeepsListening ==
    [][(/\ DeliverStep
        /\ pc = "main_loop"
        /\ mqtt_command_topic_subs # <<>>
        /\ \/ Unsubscribed(lastIn'.topic)
           \/ <<lastIn'.msg, lastIn'.t>> \in MalformedInputs)
         => listener' = "running"]_vars

\* C17: a get_payload call that raises changes neither the response nor the
\* retry budget, and the receive loop goes on to the next rxtx call, as it
\* does after a call that returns; the response changes only when a call
\* returns one, or to None when an attempt or a poll starts; so while a poll
\* runs, and when its response is decoded, the response is absent exactly
\* when no call of the poll has returned one.
C17_ExtractionFailureIgnored ==
    /\ [] (pc \in {"while_ttl", "rxtx", "get_payload", "decode"} =>
             ((response = None) <=> (extracted = 0)))
    /\ [][(pc = "get_payload" /\ pc' = "rxtx") =>
            /\ get_result' \in {"ok", "error"}
            /\ get_result' = "error" =>
                 /\ response' = response
                 /\ payload_ttl' = payload_ttl
                 /\ extracted' = extracted
                 /\ exit' = ""
            /\ get_result' = "ok" =>
                 /\ response' # None
                 /\ payload_ttl' = 0
                 /\ extracted' = extracted + 1]_vars
    /\ [][(pc = "get_payload" /\ pc' # pc) =>
            (pc' = "rxtx" \/ exit' = "KeyboardInterrupt")]_vars
    /\ [][response' # response =>
            \/ pc = "get_payload" /\ get_result' = "ok"
            \/ response' = None /\ pc \in {"while_ttl", "main_loop"}]_vars

\* in the only attempt of a poll a call returned a status response and the
\* call of the next round raised; the loop was left with the response
C17_Witness ==
    /\ pc = "decode"
    /\ attempts = 1
    /\ rx = 2
    /\ extracted = 1
    /\ get_result = "error"
    /\ response = "status"

\* the serials of the inverters that are polled
PolledSerials == { NotDisabled[i].serial : i \in 1..Len(NotDisabled) }

\* C18: every command enqueued for an enabled inverter is dequeued in the
\* end; so the process does not end, other than by an interrupt, while the
\* queue of an enabled inverter holds a command.
C18_EnqueuedEventuallySent ==
    (pc = "exited" /\ exit # "KeyboardInterrupt") =>
      \A s \in PolledSerials \cap DOMAIN command_queue :
        command_queue[s] = <<>>

\* the inverters of the configuration without raw-command-enable
NotRaw(s) ==
    \E i \in 1..Len(ahoy_config.inverters) :
      /\ ahoy_config.inverters[i].serial = s
      /\ ~ahoy_config.inverters[i].send_raw_enabled

\* C19: nothing is ever enqueued for an inverter without raw-command-enable,
\* so its queue is empty and each of its polls sends the set-time request;
\* the subscription table holds only inverters with raw-command-enable,
\* each with a queue, and all of them once the cycle loop runs; and the
\* listener appends only to a queue that exists.
C19_NoRawNoQueueEntries ==
    /\ [] (\A s \in Serials : NotRaw(s) =>
             /\ enqueued[s] = <<>>
             /\ s \in DOMAIN command_queue => command_queue[s] = <<>>)
    /\ [] ((pc \in {"while_ttl", "rxtx", "get_payload", "decode"}
              /\ NotRaw(Current.serial)) =>
             /\ payload_src = "default"
             /\ payload.kind = "set_time"
             /\ \A i \in 1..Len(sent) : sent[i].kind = "set_time")
    /\ [] (\A i \in 1..Len(mqtt_command_topic_subs) :
             /\ ~NotRaw(mqtt_command_topic_subs[i][1])
             /\ mqtt_command_topic_subs[i][1] \in DOMAIN command_queue)
    /\ [] (pc \in {"main_loop", "poll_pop", "while_ttl", "rxtx", "get_payload",
                   "decode", "sleep", "sleeping"} =>
             \A i \in 1..Len(ahoy_config.inverters) :
               ahoy_config.inverters[i].send_raw_enabled =>
                 \E j \in 1..Len(mqtt_command_topic_subs) :
                   mqtt_command_topic_subs[j][1] =
                     ahoy_config.inverters[i].serial)
    /\ [][\A s \in Serials :
            enqueued'[s] # enqueued[s] => s \in DOMAIN command_queue]_vars

\* s2, without raw-command-enable, is polled in the second cycle after a
\* command was enqueued for s1
C19_Witness ==
    /\ pc = "rxtx"
    /\ cycles = 1
    /\ Current.serial = "s2"
    /\ ahoy_config.inverters = InvertersRaw
    /\ payload_src = "default"
    /\ Len(enqueued["s1"]) = 1
    /\ Len(sent) = 2

\* C20: with the bus disabled and the radio begun, the process does not
\* end before its first poll other than by an interrupt, whatever the
\* inverters' settings, and it never subscribes nor publishes.
C20_StartupWithoutBus ==
    ahoy_config.mqtt_disabled =>
      /\ (pc = "exited" /\ radio # "closed" /\ NothingPolled)
           => exit = "KeyboardInterrupt"
      /\ mqtt_command_topic_subs = <<>>
      /\ published = <<>>

====
